---- MODULE Spec2Model ----
(***************************************************************************)
(* A model of the reconcile integrations                                   *)
(*   reconcile/openshift_saas_deploy_trigger_base.py  (trigger pass)       *)
(*   reconcile/ocm_groups.py                          (group reconciler)   *)
(*   reconcile/saas_file_owners.py                    (approval gate)      *)
(* One behaviour is one invocation of the program with one integration     *)
(* selected; the trigger integration may be re-run (several passes) on     *)
(* the trigger state persisted by the previous pass.                       *)
(* LgtmSpec and CmpSpec run the pure functions of the approval gate        *)
(* (check_if_lgtm; the diff, valid_diff and collect_compare_diffs) on      *)
(* every input within the bounds, one statement at a time.                 *)
(* TknSpec is one pass over Tekton specs with the clock running; FairSpec  *)
(* is one pass of the trigger integration under fair scheduling.           *)
(***************************************************************************)
EXTENDS Integers, Sequences, FiniteSets, TLC

(***************************************************************************)
(* Bounds of the model.                                                    *)
(***************************************************************************)
\* number of trigger specs that the desired state of one run may hold
MaxSpecs == 3
\* number of worker threads of the pool (thread_pool_size ranges over 1..MaxThreads)
MaxThreads == 2
\* number of consecutive passes of the trigger integration
MaxPasses == 2
\* number of trigger specs of one timed Tekton pass
MaxTknSpecs == 2
\* number of minutes the clock may advance during one timed Tekton pass
MaxClock == 1
\* number of trigger specs of one fairly scheduled pass
MaxFairSpecs == 2

\* reconcile.utils.saasherder.UNIQUE_SAAS_FILE_ENV_COMBO_LEN: the length the
\* name keeps of long_name ("max name length can be 63", less the 12
\* characters of the timestamp and the hyphen before it)
UNIQUE_SAAS_FILE_ENV_COMBO_LEN == 50

(***************************************************************************)
(* Names are sequences of one-character strings, so that lower-casing and  *)
(* concatenation are computed, not assumed.                                *)
(***************************************************************************)
LowerChar(c) ==
    CASE c = "A" -> "a"
      [] c = "B" -> "b"
      [] c = "C" -> "c"
      [] c = "D" -> "d"
      [] c = "E" -> "e"
      [] OTHER -> c

Lower(str) == [i \in 1..Len(str) |-> LowerChar(str[i])]

\* Providers.JENKINS / Providers.TEKTON (reconcile.utils.saasherder)
JENKINS == "jenkins"
TEKTON == "tekton"

\* settings['saasDeployJobTemplate']
saasDeployJobTemplate == <<"j">>

\* The trigger specs saasherder can produce in the modelled app-interface.
\* Specs 1, 2 and 3 (three targets of saas file "a" in environment "e") map to
\* one Jenkins job, specs 4 and 5 to one Tekton pipeline run and spec 6 to
\* another; spec 7 names a provider the dispatcher does not know, spec 8 a
\* Jenkins instance that is not in jenkins_map.
MainCatalog ==
    <<[saas_file_name |-> <<"a">>, env_name |-> <<"e">>, provider |-> JENKINS, instance |-> "ci"],
      [saas_file_name |-> <<"a">>, env_name |-> <<"e">>, provider |-> JENKINS, instance |-> "ci"],
      [saas_file_name |-> <<"a">>, env_name |-> <<"e">>, provider |-> JENKINS, instance |-> "ci"],
      [saas_file_name |-> <<"B">>, env_name |-> <<"e">>, provider |-> TEKTON, instance |-> "none"],
      [saas_file_name |-> <<"B">>, env_name |-> <<"e">>, provider |-> TEKTON, instance |-> "none"],
      [saas_file_name |-> <<"f">>, env_name |-> <<"e">>, provider |-> TEKTON, instance |-> "none"],
      [saas_file_name |-> <<"c">>, env_name |-> <<"e">>, provider |-> "other", instance |-> "none"],
      [saas_file_name |-> <<"d">>, env_name |-> <<"e">>, provider |-> JENKINS, instance |-> "gone"]>>

\* a saas file name of UNIQUE_SAAS_FILE_ENV_COMBO_LEN characters
LongSaasFileName == [i \in 1..UNIQUE_SAAS_FILE_ENV_COMBO_LEN |-> "x"]

\* Further Tekton specs, of the timed Tekton passes only: saas file "b" next
\* to "B", the saas file "f-e" in environment "e" next to the saas file "f"
\* in environment "e-e", and two targets of a saas file with a long name.
TektonCatalog ==
    <<[saas_file_name |-> <<"b">>, env_name |-> <<"e">>, provider |-> TEKTON, instance |-> "none"],
      [saas_file_name |-> <<"f", "-", "e">>, env_name |-> <<"e">>, provider |-> TEKTON, instance |-> "none"],
      [saas_file_name |-> <<"f">>, env_name |-> <<"e", "-", "e">>, provider |-> TEKTON, instance |-> "none"],
      [saas_file_name |-> LongSaasFileName, env_name |-> <<"e">>, provider |-> TEKTON, instance |-> "none"],
      [saas_file_name |-> LongSaasFileName, env_name |-> <<"e">>, provider |-> TEKTON, instance |-> "none"]>>

SpecCatalog == MainCatalog \o TektonCatalog

SpecIds == 1..Len(SpecCatalog)

\* the specs of the passes of Spec, and the Tekton specs of the timed passes
MainIds == 1..Len(MainCatalog)
TektonIds == {s \in SpecIds : SpecCatalog[s].provider = TEKTON}
\* the specs of the timed Tekton passes: the first Tekton spec of the main
\* catalog and the further ones
TknIds ==
    (TektonIds \ MainIds) \cup {CHOOSE s \in TektonIds : \A r \in TektonIds : s <= r}

\* jenkins_base.get_jenkins_map(): the instance names that have a client
jenkins_map == {"ci"}

\* get_openshift_saas_deploy_job_name(saas_file_name, env_name, settings)
get_openshift_saas_deploy_job_name(saas_file_name, env_name) ==
    saasDeployJobTemplate \o <<"-">> \o saas_file_name \o <<"-">> \o env_name

\* long_name of _construct_tekton_trigger_resource: the name _trigger_tekton
\* registers (its second return value)
long_name(saas_file_name, env_name) ==
    Lower(saas_file_name \o <<"-">> \o env_name)

\* The name each spec registers under in already_triggered: job_name in
\* _trigger_jenkins, tkn_name in _trigger_tekton.
NameOf ==
    [s \in SpecIds |->
        IF SpecCatalog[s].provider = JENKINS
            THEN get_openshift_saas_deploy_job_name(SpecCatalog[s].saas_file_name,
                                                    SpecCatalog[s].env_name)
            ELSE long_name(SpecCatalog[s].saas_file_name, SpecCatalog[s].env_name)]

VARIABLES
    integration,        \* which integration this invocation runs
    dry_run,            \* the dry_run argument of run
    thread_pool_size,   \* the thread_pool_size argument of run
    saas_files,         \* queries.get_saas_files(): the saas file names
    desired,            \* spec ids whose desired state saasherder knows
    state,              \* persisted trigger state: spec ids recorded by update_state
    pass,               \* number of the current pass of the trigger integration
    run_pc,             \* position of run: "setup", "workers", "returned", "raised"
    run_result,         \* value returned by run
    trigger_specs,      \* trigger_specs returned by saasherder.get_diff
    diff_err,           \* diff_err returned by saasherder.get_diff
    already_triggered,  \* the set of names shared by the workers of one pass
    lock,               \* _trigger_lock: 0 when free, else the spec id of the holder
    pc,                 \* per spec: the position of the worker running trigger(spec)
    to_trigger,         \* per spec: the local to_trigger of _register_trigger
    error,              \* per spec: the local error of _trigger_* / trigger
    dispatched,         \* per spec: outcome of its provider submission in this pass
    osb_dry,            \* per spec: the dry_run argument its osb.create was called with
    updated,            \* per spec: number of update_state calls made for it in this pass
    clock,              \* datetime.datetime.utcnow(), in minutes since the invocation began
    tkn_ts,             \* per spec: the minute _construct_tekton_trigger_resource read,
                        \* -1 before it has run
    prev_clean,         \* the previous pass was a non-dry-run pass that returned with
                        \* every provider submission succeeding
    ocm_pc,             \* ocm_groups.run: "fetch", "loop", "done"
    ocm_current,        \* ocm_groups.run: current_state as fetched
    ocm_desired,        \* ocm_groups.run: desired_state as fetched
    ocm_diffs,          \* ocm_groups.run: diffs
    ocm_i,              \* ocm_groups.run: index of the next diff of the for loop
    ocm_calls,          \* the calls made on the OCM clients, in order
    own_pc,             \* saas_file_owners.run: position
    own_compare,        \* saas_file_owners.run: the compare argument
    own_baseline,       \* the baseline file: <<>> or <<[owners, state]>>
    own_desired,        \* collect_state(): the state of the merge request's bundle
    own_mr_paths,       \* gl.get_merge_request_changed_paths
    own_changed_paths,  \* changed_paths (run rebinds it in its loop)
    own_comments,       \* gl.get_merge_request_comments
    own_labels,         \* gl.get_merge_request_labels
    own_valid,          \* valid_saas_file_changes_only
    own_hold,           \* the local hold of run
    own_comment_lines,  \* the keys of comment_lines, in insertion order
    own_i,              \* index of the next diff of the for loop
    own_calls,          \* the mutating calls made on GitLab and the io_dir files, in order
    lgtm_call,          \* one activation of check_if_lgtm: its arguments and locals
    cmp                 \* the comparison of run, lines 272-290: its inputs and results

\* arguments and query results that stay the same during one invocation
cfg_vars == <<integration, thread_pool_size, saas_files, desired>>

\* the state of run between setup and return
run_vars == <<dry_run, pass, run_pc, run_result, trigger_specs, diff_err, prev_clean>>

\* what the adapters (jenkins, osb, saasherder state) have been asked to do
call_vars == <<state, dispatched, osb_dry, updated>>

trigger_vars ==
    <<run_vars, call_vars, clock, tkn_ts, already_triggered, lock, pc, to_trigger, error>>

ocm_vars == <<ocm_pc, ocm_current, ocm_desired, ocm_diffs, ocm_i, ocm_calls>>

own_inputs == <<own_compare, own_desired, own_mr_paths, own_comments, own_labels>>

own_vars ==
    <<own_inputs, own_pc, own_baseline, own_changed_paths, own_valid, own_hold,
      own_comment_lines, own_i, own_calls>>

\* the activations of the pure functions of saas_file_owners.py
fn_vars == <<lgtm_call, cmp>>

vars == <<cfg_vars, fn_vars, trigger_vars, ocm_vars, own_vars>>

SaasNamesOf(S) == {SpecCatalog[s].saas_file_name : s \in S}

\* Specs with equal catalog entries are interchangeable: of such specs the
\* desired state holds the ones with the smallest ids.
Canonical(S) ==
    \A s \in S : \A r \in 1..(s - 1) : SpecCatalog[r] = SpecCatalog[s] => r \in S

\* the specs the invocation has worker state for
Workers == DOMAIN pc

NoSpec == [s \in MainIds |-> FALSE]

\* no spec has had a Tekton resource constructed
NoTs == [s \in MainIds |-> -1]

TriggerInit ==
    /\ thread_pool_size \in 1..MaxThreads
    /\ desired \in {S \in SUBSET MainIds : Cardinality(S) <= MaxSpecs /\ Canonical(S)}
    /\ saas_files \in (IF desired = {} THEN {{}, {<<"a">>}} ELSE {SaasNamesOf(desired)})
    /\ state = {}
    /\ pass = 1
    /\ run_pc = "setup"
    /\ run_result = FALSE
    /\ trigger_specs = {}
    /\ diff_err = FALSE
    /\ already_triggered = {}
    /\ lock = 0
    /\ pc = [s \in MainIds |-> "pending"]
    /\ to_trigger = NoSpec
    /\ error = NoSpec
    /\ dispatched = [s \in MainIds |-> "none"]
    /\ osb_dry = NoSpec
    /\ updated = [s \in MainIds |-> 0]
    /\ prev_clean = FALSE
    /\ clock = 0
    /\ tkn_ts = NoTs

\* the trigger integration is not the one that runs
TriggerIdle ==
    /\ thread_pool_size = 1
    /\ desired = {}
    /\ saas_files = {}
    /\ state = {}
    /\ pass = 1
    /\ run_pc = "setup"
    /\ run_result = FALSE
    /\ trigger_specs = {}
    /\ diff_err = FALSE
    /\ already_triggered = {}
    /\ lock = 0
    /\ pc = [s \in MainIds |-> "pending"]
    /\ to_trigger = NoSpec
    /\ error = NoSpec
    /\ dispatched = [s \in MainIds |-> "none"]
    /\ osb_dry = NoSpec
    /\ updated = [s \in MainIds |-> 0]
    /\ prev_clean = FALSE
    /\ clock = 0
    /\ tkn_ts = NoTs

(***************************************************************************)
(* run, lines 51-65: setup reports an error when there are no saas files;  *)
(* otherwise get_diff gives the specs whose desired state is not recorded  *)
(* in the persisted trigger state, and a fresh already_triggered set.      *)
(***************************************************************************)
\* a run that logs the setup error and goes on to the trigger work
SetupErrorContinues ==
    /\ integration = "trigger"
    /\ run_pc = "setup"
    /\ saas_files = {}
    /\ trigger_specs' = desired \ state
    /\ diff_err' \in BOOLEAN
    /\ already_triggered' = {}
    /\ run_pc' = "workers"
    /\ UNCHANGED <<cfg_vars, fn_vars, ocm_vars, own_vars, clock, tkn_ts, call_vars, dry_run, pass, run_result, lock, pc,
                   to_trigger, error, prev_clean>>

SetupError ==
    /\ integration = "trigger"
    /\ run_pc = "setup"
    /\ saas_files = {}
    /\ run_result' = TRUE
    /\ run_pc' = "returned"
    /\ UNCHANGED <<cfg_vars, fn_vars, ocm_vars, own_vars, clock, tkn_ts, call_vars, dry_run, pass, trigger_specs, diff_err, already_triggered, lock, pc, to_trigger, error, prev_clean>>

\* saasherder.get_diff(trigger_type, dry_run)
get_diff == desired \ state

RunStart ==
    /\ integration = "trigger"
    /\ run_pc = "setup"
    /\ saas_files # {}
    /\ trigger_specs' = get_diff
    /\ diff_err' \in BOOLEAN
    /\ already_triggered' = {}
    /\ run_pc' = "workers"
    /\ UNCHANGED <<cfg_vars, fn_vars, ocm_vars, own_vars, clock, tkn_ts, call_vars, dry_run, pass, run_result, lock, pc, to_trigger, error, prev_clean>>

(***************************************************************************)
(* threaded.run: a pool of thread_pool_size workers maps trigger over      *)
(* trigger_specs.  A spec is "pending" until a free worker takes it.       *)
(***************************************************************************)
Running == {s \in Workers : pc[s] \notin {"pending", "done", "raised"}}

\* a router without the else branch: error keeps its initial False
TriggerNoElse(s) ==
    /\ integration = "trigger"
    /\ run_pc = "workers"
    /\ s \in trigger_specs
    /\ pc[s] = "pending"
    /\ Cardinality(Running) < thread_pool_size
    /\ IF SpecCatalog[s].provider \in {JENKINS, TEKTON}
          THEN pc' = [pc EXCEPT ![s] = "acquire"]
          ELSE pc' = [pc EXCEPT ![s] = "done"]
    /\ error' = error
    /\ tkn_ts' = IF SpecCatalog[s].provider = TEKTON THEN [tkn_ts EXCEPT ![s] = clock] ELSE tkn_ts
    /\ UNCHANGED <<cfg_vars, fn_vars, ocm_vars, own_vars, clock, run_vars, call_vars, already_triggered, lock, to_trigger>>

\* trigger, lines 190-223: routing on the provider name; _trigger_tekton,
\* lines 273-289, constructs the resource, which reads the clock
Trigger(s) ==
    /\ integration = "trigger"
    /\ run_pc = "workers"
    /\ s \in trigger_specs
    /\ pc[s] = "pending"
    /\ Cardinality(Running) < thread_pool_size
    /\ IF SpecCatalog[s].provider \in {JENKINS, TEKTON}
          THEN /\ pc' = [pc EXCEPT ![s] = "acquire"]
               /\ error' = error
          ELSE /\ pc' = [pc EXCEPT ![s] = "done"]
               /\ error' = [error EXCEPT ![s] = TRUE]
    /\ tkn_ts' = IF SpecCatalog[s].provider = TEKTON THEN [tkn_ts EXCEPT ![s] = clock] ELSE tkn_ts
    /\ UNCHANGED <<cfg_vars, fn_vars, ocm_vars, own_vars, clock, run_vars, call_vars, already_triggered, lock, to_trigger>>

(***************************************************************************)
(* _construct_tekton_trigger_resource, lines 337-375                       *)
(***************************************************************************)
Digit(d) ==
    CASE d = 0 -> "0" [] d = 1 -> "1" [] d = 2 -> "2" [] d = 3 -> "3" [] d = 4 -> "4"
      [] d = 5 -> "5" [] d = 6 -> "6" [] d = 7 -> "7" [] d = 8 -> "8" [] d = 9 -> "9"

\* datetime.datetime.utcnow().strftime('%Y%m%d%H%M') when the invocation
\* began at 2021-01-01 00:00 and now is a minute of its first hour
strftime(now) ==
    <<"2", "0", "2", "1", "0", "1", "0", "1", "0", "0">>
    \o <<Digit(now \div 10), Digit(now % 10)>>

\* str[:n]
Prefix(str, n) == SubSeq(str, 1, IF Len(str) < n THEN Len(str) ELSE n)

\* the metadata.name of the resource and the second return value
construct_tekton_trigger_resource(saas_file_name, env_name, now) ==
    [name |-> Prefix(long_name(saas_file_name, env_name), UNIQUE_SAAS_FILE_ENV_COMBO_LEN)
              \o <<"-">> \o strftime(now),
     tkn_name |-> long_name(saas_file_name, env_name)]

\* tkn_trigger_resource of the worker of spec s: the resource osb.create is given
ResourceName(s) ==
    construct_tekton_trigger_resource(SpecCatalog[s].saas_file_name,
                                      SpecCatalog[s].env_name, tkn_ts[s]).name

\* a Tekton dispatcher that registers the name of the resource
TriggerNameOfResource(s) ==
    IF SpecCatalog[s].provider = TEKTON THEN ResourceName(s) ELSE NameOf[s]

\* the name the worker of spec s passes to _register_trigger (lines 243, 292)
TriggerName(s) == NameOf[s]

\* time passes while specs wait for a worker
Tick ==
    /\ integration = "trigger"
    /\ run_pc = "workers"
    /\ \E s \in trigger_specs : pc[s] = "pending"
    /\ clock < MaxClock
    /\ clock' = clock + 1
    /\ UNCHANGED <<cfg_vars, fn_vars, ocm_vars, own_vars, run_vars, call_vars, tkn_ts,
                   already_triggered, lock, pc, to_trigger, error>>

(***************************************************************************)
(* _register_trigger, lines 391-397                                        *)
(***************************************************************************)
\* a worker that takes _trigger_lock without waiting for it to be free
AcquireNoLock(s) ==
    /\ integration = "trigger"
    /\ pc[s] = "acquire"
    /\ lock' = s
    /\ to_trigger' = [to_trigger EXCEPT ![s] = FALSE]
    /\ pc' = [pc EXCEPT ![s] = "test"]
    /\ UNCHANGED <<cfg_vars, fn_vars, ocm_vars, own_vars, clock, tkn_ts, run_vars, call_vars, already_triggered, error>>

\* to_trigger = False; with _trigger_lock: (entry)
Acquire(s) ==
    /\ integration = "trigger"
    /\ pc[s] = "acquire"
    /\ lock = 0
    /\ lock' = s
    /\ to_trigger' = [to_trigger EXCEPT ![s] = FALSE]
    /\ pc' = [pc EXCEPT ![s] = "test"]
    /\ UNCHANGED <<cfg_vars, fn_vars, ocm_vars, own_vars, clock, tkn_ts, run_vars, call_vars, already_triggered, error>>

\* a registration that returns from inside the critical section, the lock
\* still held, when the name is already in the set
TestReturnsHoldingLock(s) ==
    /\ integration = "trigger"
    /\ pc[s] = "test"
    /\ IF TriggerName(s) \notin already_triggered
          THEN /\ to_trigger' = [to_trigger EXCEPT ![s] = TRUE]
               /\ pc' = [pc EXCEPT ![s] = "insert"]
          ELSE /\ to_trigger' = to_trigger
               /\ pc' = [pc EXCEPT ![s] = "dispatch"]
    /\ UNCHANGED <<cfg_vars, fn_vars, ocm_vars, own_vars, clock, tkn_ts, run_vars, call_vars, already_triggered, lock, error>>

\* if name not in already_triggered: to_trigger = True
Test(s) ==
    /\ integration = "trigger"
    /\ pc[s] = "test"
    /\ IF TriggerName(s) \notin already_triggered
          THEN /\ to_trigger' = [to_trigger EXCEPT ![s] = TRUE]
               /\ pc' = [pc EXCEPT ![s] = "insert"]
          ELSE /\ to_trigger' = to_trigger
               /\ pc' = [pc EXCEPT ![s] = "release"]
    /\ UNCHANGED <<cfg_vars, fn_vars, ocm_vars, own_vars, clock, tkn_ts, run_vars, call_vars, already_triggered, lock, error>>

\* already_triggered.add(name)
Insert(s) ==
    /\ integration = "trigger"
    /\ pc[s] = "insert"
    /\ already_triggered' = already_triggered \cup {TriggerName(s)}
    /\ pc' = [pc EXCEPT ![s] = "release"]
    /\ UNCHANGED <<cfg_vars, fn_vars, ocm_vars, own_vars, clock, tkn_ts, run_vars, call_vars, lock, to_trigger, error>>

\* a registration that returns without leaving the with block
ReleaseKeepsLock(s) ==
    /\ integration = "trigger"
    /\ pc[s] = "release"
    /\ lock' = lock
    /\ pc' = [pc EXCEPT ![s] = "dispatch"]
    /\ UNCHANGED <<cfg_vars, fn_vars, ocm_vars, own_vars, clock, tkn_ts, run_vars, call_vars, already_triggered, to_trigger, error>>

\* leaving the with block; return to_trigger
Release(s) ==
    /\ integration = "trigger"
    /\ pc[s] = "release"
    /\ lock' = 0
    /\ pc' = [pc EXCEPT ![s] = "dispatch"]
    /\ UNCHANGED <<cfg_vars, fn_vars, ocm_vars, own_vars, clock, tkn_ts, run_vars, call_vars, already_triggered, to_trigger, error>>

(***************************************************************************)
(* _trigger_jenkins, lines 242-260                                         *)
(***************************************************************************)
\* a dispatcher that forgets the registry's answer
JenkinsSubmitsUnregistered(s) == ~dry_run

\* line 244 and 246: if to_trigger: ... if not dry_run:
JenkinsSubmits(s) == to_trigger[s] /\ ~dry_run

\* a dispatcher whose trigger_job call is not wrapped in try/except
JenkinsDispatchUncaught(s) ==
    /\ integration = "trigger"
    /\ pc[s] = "dispatch"
    /\ SpecCatalog[s].provider = JENKINS
    /\ IF JenkinsSubmits(s)
          THEN IF SpecCatalog[s].instance \notin jenkins_map
                  THEN /\ pc' = [pc EXCEPT ![s] = "raised"]
                       /\ UNCHANGED <<error, dispatched>>
                  ELSE \E ok \in BOOLEAN :
                       /\ dispatched' = [dispatched EXCEPT ![s] = IF ok THEN "ok" ELSE "fail"]
                       /\ error' = error
                       /\ pc' = [pc EXCEPT ![s] = IF ok THEN "update" ELSE "raised"]
          ELSE /\ pc' = [pc EXCEPT ![s] = "update"]
               /\ UNCHANGED <<error, dispatched>>
    /\ UNCHANGED <<cfg_vars, fn_vars, ocm_vars, own_vars, clock, tkn_ts, run_vars, state, osb_dry, updated, already_triggered, lock,
                   to_trigger>>

\* lines 244-255.  jenkins_map[instance_name] is outside the try block, so a
\* missing instance raises KeyError out of trigger; a failure of trigger_job
\* is caught and becomes error = True.
JenkinsDispatch(s) ==
    /\ integration = "trigger"
    /\ pc[s] = "dispatch"
    /\ SpecCatalog[s].provider = JENKINS
    /\ IF JenkinsSubmits(s)
          THEN IF SpecCatalog[s].instance \notin jenkins_map
                  THEN /\ pc' = [pc EXCEPT ![s] = "raised"]
                       /\ UNCHANGED <<error, dispatched>>
                  ELSE \E ok \in BOOLEAN :
                       /\ dispatched' = [dispatched EXCEPT ![s] = IF ok THEN "ok" ELSE "fail"]
                       /\ error' = [error EXCEPT ![s] = ~ok]
                       /\ pc' = [pc EXCEPT ![s] = "update"]
          ELSE /\ pc' = [pc EXCEPT ![s] = "update"]
               /\ UNCHANGED <<error, dispatched>>
    /\ UNCHANGED <<cfg_vars, fn_vars, ocm_vars, own_vars, clock, tkn_ts, run_vars, state, osb_dry, updated, already_triggered, lock,
                   to_trigger>>

\* a state update that ignores the error flag
JenkinsUpdatesDespiteError(s) == ~dry_run

\* a state update made only by the worker that made the submission
JenkinsUpdatesOnlyTriggered(s) == to_trigger[s] /\ ~error[s] /\ ~dry_run

\* line 257: if not error and not dry_run:
JenkinsUpdates(s) == ~error[s] /\ ~dry_run

\* lines 257-260.  saasherder.update_state is outside any try block: when it
\* fails, the exception leaves trigger.
JenkinsUpdateState(s) ==
    /\ integration = "trigger"
    /\ pc[s] = "update"
    /\ SpecCatalog[s].provider = JENKINS
    /\ IF JenkinsUpdates(s)
          THEN /\ updated' = [updated EXCEPT ![s] = @ + 1]
               /\ \E ok \in BOOLEAN :
                    IF ok THEN /\ state' = state \cup {s}
                               /\ pc' = [pc EXCEPT ![s] = "done"]
                          ELSE /\ state' = state
                               /\ pc' = [pc EXCEPT ![s] = "raised"]
          ELSE /\ pc' = [pc EXCEPT ![s] = "done"]
               /\ UNCHANGED <<state, updated>>
    /\ UNCHANGED <<cfg_vars, fn_vars, ocm_vars, own_vars, clock, tkn_ts, run_vars, dispatched, osb_dry, already_triggered, lock,
                   to_trigger, error>>

(***************************************************************************)
(* _trigger_tekton, lines 291-312                                          *)
(***************************************************************************)
\* line 293: if to_trigger:
TektonSubmits(s) == to_trigger[s]

\* lines 293-307: osb.create is called with the dry_run flag passed through;
\* its failure is caught and becomes error = True.
TektonDispatch(s) ==
    /\ integration = "trigger"
    /\ pc[s] = "dispatch"
    /\ SpecCatalog[s].provider = TEKTON
    /\ IF TektonSubmits(s)
          THEN \E ok \in BOOLEAN :
               /\ dispatched' = [dispatched EXCEPT ![s] = IF ok THEN "ok" ELSE "fail"]
               /\ osb_dry' = [osb_dry EXCEPT ![s] = dry_run]
               /\ error' = [error EXCEPT ![s] = ~ok]
          ELSE UNCHANGED <<error, dispatched, osb_dry>>
    /\ pc' = [pc EXCEPT ![s] = "update"]
    /\ UNCHANGED <<cfg_vars, fn_vars, ocm_vars, own_vars, clock, tkn_ts, run_vars, state, updated, already_triggered, lock, to_trigger>>

\* line 309: if not error and not dry_run:
TektonUpdates(s) == ~error[s] /\ ~dry_run

\* lines 309-312
TektonUpdateState(s) ==
    /\ integration = "trigger"
    /\ pc[s] = "update"
    /\ SpecCatalog[s].provider = TEKTON
    /\ IF TektonUpdates(s)
          THEN /\ updated' = [updated EXCEPT ![s] = @ + 1]
               /\ \E ok \in BOOLEAN :
                    IF ok THEN /\ state' = state \cup {s}
                               /\ pc' = [pc EXCEPT ![s] = "done"]
                          ELSE /\ state' = state
                               /\ pc' = [pc EXCEPT ![s] = "raised"]
          ELSE /\ pc' = [pc EXCEPT ![s] = "done"]
               /\ UNCHANGED <<state, updated>>
    /\ UNCHANGED <<cfg_vars, fn_vars, ocm_vars, own_vars, clock, tkn_ts, run_vars, dispatched, osb_dry, already_triggered, lock,
                   to_trigger, error>>

(***************************************************************************)
(* run, lines 70-87: threaded.run returns the workers' results once every  *)
(* spec has been mapped; run returns any(errors + [diff_err]).  An         *)
(* exception that left trigger is re-raised by threaded.run.               *)
(***************************************************************************)
\* a result that forgets diff_err
AnyErrorsNoDiff == \E s \in trigger_specs : error[s]

\* line 85-87: errors.append(diff_err); any(errors)
AnyErrors == diff_err \/ \E s \in trigger_specs : error[s]

RunReturn ==
    /\ integration = "trigger"
    /\ run_pc = "workers"
    /\ \A s \in trigger_specs : pc[s] \in {"done", "raised"}
    /\ IF \E s \in trigger_specs : pc[s] = "raised"
          THEN /\ run_pc' = "raised"
               /\ run_result' = run_result
          ELSE /\ run_pc' = "returned"
               /\ run_result' = AnyErrors
    /\ UNCHANGED <<cfg_vars, fn_vars, ocm_vars, own_vars, clock, tkn_ts, call_vars, dry_run, pass, trigger_specs, diff_err, prev_clean,
                   already_triggered, lock, pc, to_trigger, error>>

\* The integration is run again: a new pass with fresh locals, on the trigger
\* state the previous pass persisted.
NextPass ==
    /\ integration = "trigger"
    /\ run_pc \in {"returned", "raised"}
    /\ pass < MaxPasses
    /\ pass' = pass + 1
    /\ prev_clean' = (/\ run_pc = "returned"
                      /\ saas_files # {}
                      /\ ~dry_run
                      /\ \A s \in trigger_specs : dispatched[s] # "fail")
    /\ dry_run' \in BOOLEAN
    /\ run_pc' = "setup"
    /\ run_result' = FALSE
    /\ trigger_specs' = {}
    /\ diff_err' = FALSE
    /\ already_triggered' = {}
    /\ lock' = 0
    /\ pc' = [s \in Workers |-> "pending"]
    /\ to_trigger' = [s \in Workers |-> FALSE]
    /\ error' = [s \in Workers |-> FALSE]
    /\ dispatched' = [s \in Workers |-> "none"]
    /\ osb_dry' = [s \in Workers |-> FALSE]
    /\ updated' = [s \in Workers |-> 0]
    /\ tkn_ts' = [s \in Workers |-> -1]
    /\ UNCHANGED <<cfg_vars, fn_vars, ocm_vars, own_vars, clock, state>>

TriggerNext ==
    \/ SetupError
    \/ RunStart
    \/ \E s \in Workers : Trigger(s)
    \/ \E s \in Workers : Acquire(s)
    \/ \E s \in Workers : Test(s)
    \/ \E s \in Workers : Insert(s)
    \/ \E s \in Workers : Release(s)
    \/ \E s \in Workers : JenkinsDispatch(s)
    \/ \E s \in Workers : JenkinsUpdateState(s)
    \/ \E s \in Workers : TektonDispatch(s)
    \/ \E s \in Workers : TektonUpdateState(s)
    \/ RunReturn
    \/ NextPass

(***************************************************************************)
(* reconcile/ocm_groups.py                                                 *)
(***************************************************************************)
\* The group memberships the clusters and app-interface can hold.
Memberships ==
    <<[cluster |-> "c1", group |-> "dedicated-admins", user |-> "u1"],
      [cluster |-> "c1", group |-> "dedicated-admins", user |-> "u2"],
      [cluster |-> "c1", group |-> "other-group", user |-> "u1"],
      [cluster |-> "c2", group |-> "dedicated-admins", user |-> "u1"]>>

\* the sub-list of Memberships at the indices in I
SubList(I) ==
    LET F[i \in 0..Len(Memberships)] ==
            IF i = 0 THEN <<>>
            ELSE IF i \in I THEN Append(F[i - 1], Memberships[i]) ELSE F[i - 1]
    IN  F[Len(Memberships)]

InList(x, list) == \E i \in 1..Len(list) : list[i] = x

\* a run that keeps the memberships of every group
OnlyDedicatedAdminsKeepsAll(list) == list

\* [s for s in state if s['group'] == 'dedicated-admins']
OnlyDedicatedAdmins(list) == SelectSeq(list, LAMBDA m : m.group = "dedicated-admins")

WithAction(list, action) ==
    [i \in 1..Len(list) |->
        [cluster |-> list[i].cluster, group |-> list[i].group, user |-> list[i].user,
         action |-> action]]

\* the entries of list that are the first of their (cluster, group) in it and
\* whose (cluster, group) has no entry in other
GroupsMissing(list, other) ==
    SelectSeq([i \in 1..Len(list) |-> [m |-> list[i], i |-> i]],
              LAMBDA e :
                /\ \A j \in 1..(e.i - 1) :
                      ~(list[j].cluster = e.m.cluster /\ list[j].group = e.m.group)
                /\ \A j \in 1..Len(other) :
                      ~(other[j].cluster = e.m.cluster /\ other[j].group = e.m.group))

GroupAction(list, other, action) ==
    LET g == GroupsMissing(list, other)
    IN  [i \in 1..Len(g) |->
            [cluster |-> g[i].m.cluster, group |-> g[i].m.group, user |-> "", action |-> action]]

\* openshift_groups.calculate_diff(current_state, desired_state)
calculate_diff(current_state, desired_state) ==
    GroupAction(desired_state, current_state, "create_group")
    \o WithAction(SelectSeq(desired_state, LAMBDA m : ~InList(m, current_state)),
                  "add_user_to_group")
    \o WithAction(SelectSeq(current_state, LAMBDA m : ~InList(m, desired_state)),
                  "del_user_from_group")
    \o GroupAction(current_state, desired_state, "delete_group")

OcmInit ==
    /\ ocm_pc = "fetch"
    /\ \E I \in SUBSET (1..Len(Memberships)) : ocm_current = SubList(I)
    /\ \E I \in SUBSET (1..Len(Memberships)) : ocm_desired = SubList(I)
    /\ ocm_diffs = <<>>
    /\ ocm_i = 1
    /\ ocm_calls = <<>>

\* the group reconciler is not the integration that runs
OcmIdle ==
    /\ ocm_pc = "fetch"
    /\ ocm_current = <<>>
    /\ ocm_desired = <<>>
    /\ ocm_diffs = <<>>
    /\ ocm_i = 1
    /\ ocm_calls = <<>>

\* run, lines 59-69: both states are restricted to dedicated-admins before
\* the diff is calculated (validate_diffs changes nothing: it returns or raises
\* before the loop)
OcmCalculate ==
    /\ integration = "ocm_groups"
    /\ ocm_pc = "fetch"
    /\ ocm_diffs' = calculate_diff(OnlyDedicatedAdmins(ocm_current),
                                   OnlyDedicatedAdmins(ocm_desired))
    /\ ocm_i' = 1
    /\ ocm_pc' = "loop"
    /\ UNCHANGED <<cfg_vars, fn_vars, trigger_vars, own_vars, ocm_current, ocm_desired, ocm_calls>>

\* act, lines 45-55: the calls act makes on the cluster's OCM client
act(diff) ==
    IF diff.action = "add_user_to_group"
        THEN <<[op |-> "add_user_to_group", cluster |-> diff.cluster,
                group |-> diff.group, user |-> diff.user]>>
    ELSE IF diff.action = "del_user_from_group"
        THEN <<[op |-> "del_user_from_group", cluster |-> diff.cluster,
                group |-> diff.group, user |-> diff.user]>>
    ELSE <<>>

\* a loop body that acts whatever dry_run says
OcmActsAlways(diff) == TRUE

\* run, line 77: if not dry_run:
OcmActs(diff) == ~dry_run

\* run, lines 71-78: one iteration of the for loop
OcmLoop ==
    /\ integration = "ocm_groups"
    /\ ocm_pc = "loop"
    /\ ocm_i <= Len(ocm_diffs)
    /\ LET diff == ocm_diffs[ocm_i]
       IN  IF diff.action \in {"create_group", "delete_group"}
              THEN ocm_calls' = ocm_calls
              ELSE IF OcmActs(diff)
                      THEN ocm_calls' = ocm_calls \o act(diff)
                      ELSE ocm_calls' = ocm_calls
    /\ ocm_i' = ocm_i + 1
    /\ UNCHANGED <<cfg_vars, fn_vars, trigger_vars, own_vars, ocm_pc, ocm_current, ocm_desired, ocm_diffs>>

\* run: the for loop is exhausted and run returns
OcmReturn ==
    /\ integration = "ocm_groups"
    /\ ocm_pc = "loop"
    /\ ocm_i > Len(ocm_diffs)
    /\ ocm_pc' = "done"
    /\ UNCHANGED <<cfg_vars, fn_vars, trigger_vars, own_vars, ocm_current, ocm_desired, ocm_diffs, ocm_i,
                   ocm_calls>>

OcmNext ==
    \/ OcmCalculate
    \/ OcmLoop
    \/ OcmReturn

(***************************************************************************)
(* reconcile/saas_file_owners.py                                           *)
(* Paths, user names and comment bodies are sequences of characters or     *)
(* tokens, so that endswith, replace and split are computed.               *)
(***************************************************************************)
\* one entry of collect_state, lines 87-100; parameters, a dict, is the set
\* of its items
Entry(name, path, ref, namespace, delete) ==
    [saas_file_path |-> path,
     saas_file_name |-> name,
     resource_template_name |-> "rt",
     cluster |-> "c1",
     namespace |-> namespace,
     environment |-> "prod",
     url |-> "https://git/example",
     ref |-> ref,
     parameters |-> {},
     saas_file_definitions |->
        [managed_resource_types |-> <<"Deployment">>,
         image_patterns |-> <<"quay.io">>,
         use_channel_in_image_tag |-> FALSE],
     delete |-> delete]

PathS == <<"/", "s">>
PathT == <<"/", "t">>

E1 == Entry("s", PathS, "abc", "n1", "None")
\* E1 with another ref
E2 == Entry("s", PathS, "def", "n1", "None")
\* E1 with another namespace
E3 == Entry("s", PathS, "abc", "n2", "None")
\* a target of another saas file
E4 == Entry("t", PathT, "abc", "n1", "None")
\* E4 with another ref
E5 == Entry("t", PathT, "def", "n1", "None")

\* E1 with the delete flag set
E6 == [E1 EXCEPT !.delete = "True"]
\* E1 with a parameter and with use_channel_in_image_tag set
E7 == [E1 EXCEPT !.parameters = {<<"k", "v">>},
                 !.saas_file_definitions.use_channel_in_image_tag = TRUE]

\* the states collect_state can return
StateLists ==
    {<<>>, <<E1>>, <<E2>>, <<E3>>, <<E1, E4>>, <<E2, E4>>, <<E2, E5>>, <<E4, E1>>}

\* collect_owners(): saas file name -> owner names; alice is tagged on merge requests
OwnersMap == [s |-> << <<"@", "a">> >>, t |-> << <<"c">> >>]

\* the changed paths of the merge request
ChangedPathLists ==
    {<<>>,
     << <<"d", "/", "s">> >>,
     << <<"d", "/", "s">>, <<"d", "/", "t">> >>,
     << <<"d", "/", "s">>, <<"d", "/", "o">> >>}

Comment(username, body, created_at) ==
    [username |-> username, body |-> body, created_at |-> created_at]

\* the comments of the merge request
CommentLists ==
    {<<>>,
     <<Comment(<<"a">>, <<"/lgtm">>, 1)>>,
     <<Comment(<<"b">>, <<"/lgtm">>, 1)>>,
     <<Comment(<<"a">>, <<"/hold">>, 2), Comment(<<"a">>, <<"/lgtm">>, 1)>>,
     <<Comment(<<"a">>, <<"x", "\n", "/lgtm">>, 1), Comment(<<"c">>, <<"/lgtm">>, 2)>>}

saas_label == "saas-file-update"
approved_label == "bot/approved"
hold_label == "bot/hold"

\* str.endswith
EndsWith(str, suffix) ==
    /\ Len(suffix) <= Len(str)
    /\ SubSeq(str, Len(str) - Len(suffix) + 1, Len(str)) = suffix

\* [c for c in changed_paths if c.endswith(saas_file_path)]
ChangedPathMatches(changed_paths, saas_file_path) ==
    SelectSeq(changed_paths, LAMBDA c : EndsWith(c, saas_file_path))

\* a diff by position: the entries of desired_state that differ from the
\* entry of current_state at the same index
DiffsByIndex(current_state, desired_state) ==
    LET F[i \in 0..Len(desired_state)] ==
            IF i = 0 THEN <<>>
            ELSE IF i <= Len(current_state) /\ current_state[i] = desired_state[i]
                    THEN F[i - 1]
                    ELSE Append(F[i - 1], desired_state[i])
    IN  F[Len(desired_state)]

\* run, line 276: [s for s in desired_state if s not in current_state]
Diffs(current_state, desired_state) ==
    SelectSeq(desired_state, LAMBDA s : ~InList(s, current_state))

\* collect_compare_diffs, lines 113-144
collect_compare_diffs(current_state, desired_state, changed_paths) ==
    {<<desired_state[i].url, "/compare/", current_state[j].ref, "...", desired_state[i].ref>> :
        <<i, j>> \in
            {x \in (1..Len(desired_state)) \X (1..Len(current_state)) :
                LET d == desired_state[x[1]]
                    c == current_state[x[2]]
                IN  /\ ChangedPathMatches(changed_paths, d.saas_file_path) # <<>>
                    /\ d.saas_file_name = c.saas_file_name
                    /\ d.resource_template_name = c.resource_template_name
                    /\ d.environment = c.environment
                    /\ d.cluster = c.cluster
                    /\ d.namespace = c.namespace
                    /\ d.ref # c.ref}}

\* a copy from which ref is not popped
StrippedKeepsRef(e) ==
    [saas_file_path |-> e.saas_file_path,
     saas_file_name |-> e.saas_file_name,
     resource_template_name |-> e.resource_template_name,
     cluster |-> e.cluster,
     namespace |-> e.namespace,
     environment |-> e.environment,
     url |-> e.url,
     ref |-> e.ref,
     saas_file_definitions |->
        [managed_resource_types |-> e.saas_file_definitions.managed_resource_types,
         image_patterns |-> e.saas_file_definitions.image_patterns],
     delete |-> e.delete]

\* valid_diff, lines 199-203: the entry without ref, parameters and
\* use_channel_in_image_tag (collect_state entries have no 'disable' key)
Stripped(e) ==
    [saas_file_path |-> e.saas_file_path,
     saas_file_name |-> e.saas_file_name,
     resource_template_name |-> e.resource_template_name,
     cluster |-> e.cluster,
     namespace |-> e.namespace,
     environment |-> e.environment,
     url |-> e.url,
     saas_file_definitions |->
        [managed_resource_types |-> e.saas_file_definitions.managed_resource_types,
         image_patterns |-> e.saas_file_definitions.image_patterns],
     delete |-> e.delete]

\* valid_diff, lines 195-210
valid_diff(current_state, desired_state) ==
    [i \in 1..Len(current_state) |-> Stripped(current_state[i])]
        = [i \in 1..Len(desired_state) |-> Stripped(desired_state[i])]

\* a sort that puts a comment before the earlier ones of the same created_at
RECURSIVE SortedCommentsTiesReversed(_)
SortedCommentsTiesReversed(comments) ==
    IF comments = <<>> THEN <<>>
    ELSE LET n == Len(comments)
             front == SortedCommentsTiesReversed(SubSeq(comments, 1, n - 1))
             last == comments[n]
             k == Cardinality({i \in 1..Len(front) : front[i].created_at < last.created_at})
         IN  SubSeq(front, 1, k) \o <<last>> \o SubSeq(front, k + 1, Len(front))

\* sorted(comments, key=created_at): a stable insertion sort
RECURSIVE SortedComments(_)
SortedComments(comments) ==
    IF comments = <<>> THEN <<>>
    ELSE LET n == Len(comments)
             front == SortedComments(SubSeq(comments, 1, n - 1))
             last == comments[n]
             k == Cardinality({i \in 1..Len(front) : front[i].created_at <= last.created_at})
         IN  SubSeq(front, 1, k) \o <<last>> \o SubSeq(front, k + 1, Len(front))

\* str.split('\n') of a body given as tokens
RECURSIVE SplitLines(_)
SplitLines(body) ==
    IF \A i \in 1..Len(body) : body[i] # "\n" THEN <<body>>
    ELSE LET k == CHOOSE i \in 1..Len(body) :
                    body[i] = "\n" /\ \A j \in 1..(i - 1) : body[j] # "\n"
         IN  <<SubSeq(body, 1, k - 1)>> \o SplitLines(SubSeq(body, k + 1, Len(body)))

\* a grammar whose /hold cancel approves whether or not /lgtm was seen
ApplyLineCancelApproves(st, line) ==
    IF line = <<"/lgtm">> THEN [st EXCEPT !.lgtm_comment = TRUE, !.approved = TRUE]
    ELSE IF line = <<"/lgtm", " cancel">>
        THEN [st EXCEPT !.lgtm_comment = FALSE, !.approved = FALSE]
    ELSE IF line = <<"/hold">> THEN [st EXCEPT !.hold = TRUE, !.approved = FALSE]
    ELSE IF line = <<"/hold", " cancel">> THEN [st EXCEPT !.hold = FALSE, !.approved = TRUE]
    ELSE st

\* a grammar whose /hold leaves approved as it is
ApplyLineHoldKeepsApproved(st, line) ==
    IF line = <<"/lgtm">> THEN [st EXCEPT !.lgtm_comment = TRUE, !.approved = TRUE]
    ELSE IF line = <<"/lgtm", " cancel">>
        THEN [st EXCEPT !.lgtm_comment = FALSE, !.approved = FALSE]
    ELSE IF line = <<"/hold">> THEN [st EXCEPT !.hold = TRUE]
    ELSE IF line = <<"/hold", " cancel">>
        THEN [st EXCEPT !.hold = FALSE, !.approved = IF st.lgtm_comment THEN TRUE ELSE @]
    ELSE st

\* check_if_lgtm, lines 226-238: the effect of one line on
\* [approved, hold, lgtm_comment]
ApplyLine(st, line) ==
    LET s1 == IF line = <<"/lgtm">>
                 THEN [st EXCEPT !.lgtm_comment = TRUE, !.approved = TRUE] ELSE st
        s2 == IF line = <<"/lgtm", " cancel">>
                 THEN [s1 EXCEPT !.lgtm_comment = FALSE, !.approved = FALSE] ELSE s1
        s3 == IF line = <<"/hold">>
                 THEN [s2 EXCEPT !.hold = TRUE, !.approved = FALSE] ELSE s2
        s4 == IF line = <<"/hold", " cancel">>
                 THEN [s3 EXCEPT !.hold = FALSE,
                                 !.approved = IF s3.lgtm_comment THEN TRUE ELSE @]
                 ELSE s3
    IN  s4

RECURSIVE ApplyLines(_, _)
ApplyLines(st, lines) ==
    IF lines = <<>> THEN st
    ELSE ApplyLines(ApplyLine(st, Head(lines)), Tail(lines))

RECURSIVE ApplyComments(_, _, _)
ApplyComments(st, owners, comments) ==
    IF comments = <<>> THEN st
    ELSE LET comment == Head(comments)
         IN  IF ~InList(comment.username, owners)
                THEN ApplyComments(st, owners, Tail(comments))
                ELSE ApplyComments(ApplyLines(st, SplitLines(comment.body)),
                                   owners, Tail(comments))

\* u.replace('@', '')
WithoutAt(u) == SelectSeq(u, LAMBDA c : c # "@")

\* check_if_lgtm, lines 213-240: <<approved, hold>>
check_if_lgtm(owners, comments) ==
    IF owners = <<>> THEN <<FALSE, FALSE>>
    ELSE LET st == ApplyComments([approved |-> FALSE, hold |-> FALSE, lgtm_comment |-> FALSE],
                                 [i \in 1..Len(owners) |-> WithoutAt(owners[i])],
                                 SortedComments(comments))
         IN  <<st.approved, st.hold>>

\* check_saas_files_changes_only, lines 243-255
check_saas_files_changes_only(changed_paths, diffs) ==
    \A i \in 1..Len(changed_paths) :
        \E j \in 1..Len(diffs) : EndsWith(changed_paths[i], diffs[j].saas_file_path)

\* write_diffs_to_file, lines 162-174: the body written
DiffsBody(diffs, valid_saas_file_changes_only) ==
    LET items == [i \in 1..Len(diffs) |->
                    [saas_file_name |-> diffs[i].saas_file_name,
                     environment |-> diffs[i].environment]]
        keep == {i \in 1..Len(items) : \A j \in 1..(i - 1) : items[j] # items[i]}
        F[i \in 0..Len(items)] ==
            IF i = 0 THEN <<>>
            ELSE IF i \in keep THEN Append(F[i - 1], items[i]) ELSE F[i - 1]
    IN  [valid_saas_file_changes_only |-> valid_saas_file_changes_only,
         items |-> F[Len(items)]]

\* owners.get(saas_file_name): None is modelled as the empty list
OwnersGet(owners, saas_file_name) ==
    IF saas_file_name \in DOMAIN owners THEN owners[saas_file_name] ELSE <<>>

Call(op, arg) == [op |-> op, arg |-> arg]

OwnersInit ==
    /\ own_pc = "start"
    /\ own_compare \in BOOLEAN
    /\ own_baseline \in
          IF own_compare
             THEN {<<[owners |-> OwnersMap, state |-> s]>> : s \in StateLists}
             ELSE {<<>>}
    /\ own_desired \in StateLists
    /\ own_mr_paths \in (IF own_compare THEN ChangedPathLists ELSE {<<>>})
    /\ own_changed_paths = own_mr_paths
    /\ own_comments \in (IF own_compare THEN CommentLists ELSE {<<>>})
    /\ own_labels \in (IF own_compare THEN {{}, {saas_label}} ELSE {{}})
    /\ own_valid = FALSE
    /\ own_hold = FALSE
    /\ own_comment_lines = <<>>
    /\ own_i = 1
    /\ own_calls = <<>>

\* the approval gate is not the integration that runs
OwnersIdle ==
    /\ own_pc = "start"
    /\ own_compare = FALSE
    /\ own_baseline = <<>>
    /\ own_desired = <<>>
    /\ own_mr_paths = <<>>
    /\ own_changed_paths = <<>>
    /\ own_comments = <<>>
    /\ own_labels = {}
    /\ own_valid = FALSE
    /\ own_hold = FALSE
    /\ own_comment_lines = <<>>
    /\ own_i = 1
    /\ own_calls = <<>>

own_current == own_baseline[1].state
own_owners == own_baseline[1].owners
own_diffs == Diffs(own_current, own_desired)

\* run, lines 260-266: without compare the baseline is collected and written
OwnersWriteBaseline ==
    /\ integration = "saas_file_owners"
    /\ own_pc = "start"
    /\ ~own_compare
    /\ own_baseline' = <<[owners |-> OwnersMap, state |-> own_desired]>>
    /\ own_calls' = Append(own_calls, Call("write_baseline", own_baseline'[1]))
    /\ own_pc' = "done"
    /\ UNCHANGED <<cfg_vars, fn_vars, trigger_vars, ocm_vars, own_inputs, own_changed_paths, own_valid,
                   own_hold, own_comment_lines, own_i>>

\* run, lines 268-286: the comparison URLs are posted as a comment
OwnersCompare ==
    /\ integration = "saas_file_owners"
    /\ own_pc = "start"
    /\ own_compare
    /\ LET compare_diffs ==
               collect_compare_diffs(own_current, own_desired, own_changed_paths)
       IN  own_calls' = IF compare_diffs # {}
                           THEN Append(own_calls, Call("add_comment", <<"Diffs:", compare_diffs>>))
                           ELSE own_calls
    /\ own_pc' = "diffs"
    /\ UNCHANGED <<cfg_vars, fn_vars, trigger_vars, ocm_vars, own_inputs, own_baseline,
                   own_changed_paths, own_valid, own_hold, own_comment_lines, own_i>>

\* run, lines 288-304: the diffs file is written and the saas-file-update
\* label is set to valid_saas_file_changes_only
OwnersWriteDiffs ==
    /\ integration = "saas_file_owners"
    /\ own_pc = "diffs"
    /\ LET valid == /\ check_saas_files_changes_only(own_changed_paths, own_diffs)
                    /\ valid_diff(own_current, own_desired)
           written == Append(own_calls, Call("write_diffs", DiffsBody(own_diffs, valid)))
       IN  /\ own_valid' = valid
           /\ own_calls' =
                IF valid /\ saas_label \notin own_labels
                    THEN Append(written, Call("add_label", saas_label))
                ELSE IF ~valid /\ saas_label \in own_labels
                    THEN Append(written, Call("remove_label", saas_label))
                ELSE written
    /\ own_pc' = "check"
    /\ UNCHANGED <<cfg_vars, fn_vars, trigger_vars, ocm_vars, own_inputs, own_baseline,
                   own_changed_paths, own_hold, own_comment_lines, own_i>>

\* run, lines 306-315: nothing to approve, or a diff that is not valid
OwnersCheck ==
    /\ integration = "saas_file_owners"
    /\ own_pc = "check"
    /\ IF own_desired = own_current \/ ~valid_diff(own_current, own_desired)
          THEN /\ own_calls' = Append(own_calls, Call("remove_label", approved_label))
               /\ own_pc' = "done"
          ELSE /\ own_calls' = own_calls
               /\ own_pc' = "loop"
    /\ own_hold' = FALSE
    /\ own_comment_lines' = <<>>
    /\ own_i' = 1
    /\ UNCHANGED <<cfg_vars, fn_vars, trigger_vars, ocm_vars, own_inputs, own_baseline,
                   own_changed_paths, own_valid>>

\* run, lines 318-355: one iteration of the loop over the diffs
OwnersLoop ==
    /\ integration = "saas_file_owners"
    /\ own_pc = "loop"
    /\ own_i <= Len(own_diffs)
    /\ LET diff == own_diffs[own_i]
           changed_path_matches == ChangedPathMatches(own_changed_paths, diff.saas_file_path)
           saas_file_owners == OwnersGet(own_owners, diff.saas_file_name)
           lgtm == check_if_lgtm(saas_file_owners, own_comments)
           hold == own_hold \/ lgtm[2]
           hold_call == Call(IF hold THEN "add_label" ELSE "remove_label", hold_label)
       IN  IF changed_path_matches = <<>>
              THEN UNCHANGED <<own_hold, own_calls, own_comment_lines, own_changed_paths>>
              ELSE /\ own_hold' = hold
                   /\ IF ~lgtm[1]
                         THEN /\ own_calls' = own_calls \o
                                    <<hold_call, Call("remove_label", approved_label)>>
                              /\ own_comment_lines' =
                                    IF InList(diff.saas_file_name, own_comment_lines)
                                        THEN own_comment_lines
                                        ELSE Append(own_comment_lines, diff.saas_file_name)
                              /\ own_changed_paths' = own_changed_paths
                         ELSE /\ own_calls' = Append(own_calls, hold_call)
                              /\ own_comment_lines' = own_comment_lines
                              /\ own_changed_paths' =
                                    SelectSeq(own_changed_paths,
                                              LAMBDA c : ~InList(c, changed_path_matches))
    /\ own_i' = own_i + 1
    /\ UNCHANGED <<cfg_vars, fn_vars, trigger_vars, ocm_vars, own_inputs, own_baseline, own_pc,
                   own_valid>>

\* a gate that approves whatever is left of changed_paths
OwnersFinishAlwaysApproves ==
    /\ integration = "saas_file_owners"
    /\ own_pc = "loop"
    /\ own_i > Len(own_diffs)
    /\ LET commented ==
               IF own_comment_lines # <<>>
                   THEN Append(own_calls,
                               Call("add_comment", <<"approval", own_comment_lines, ~own_valid>>))
                   ELSE own_calls
       IN  own_calls' = Append(commented, Call("add_label", approved_label))
    /\ own_pc' = "done"
    /\ UNCHANGED <<cfg_vars, fn_vars, trigger_vars, ocm_vars, own_inputs, own_baseline,
                   own_changed_paths, own_valid, own_hold, own_comment_lines, own_i>>

\* run, lines 357-372: the approval comment and the bot/approved label
OwnersFinish ==
    /\ integration = "saas_file_owners"
    /\ own_pc = "loop"
    /\ own_i > Len(own_diffs)
    /\ LET commented ==
               IF own_comment_lines # <<>>
                   THEN Append(own_calls,
                               Call("add_comment", <<"approval", own_comment_lines, ~own_valid>>))
                   ELSE own_calls
       IN  own_calls' =
               IF Len(own_changed_paths) # 0
                   THEN Append(commented, Call("remove_label", approved_label))
                   ELSE Append(commented, Call("add_label", approved_label))
    /\ own_pc' = "done"
    /\ UNCHANGED <<cfg_vars, fn_vars, trigger_vars, ocm_vars, own_inputs, own_baseline,
                   own_changed_paths, own_valid, own_hold, own_comment_lines, own_i>>

OwnersNext ==
    \/ OwnersWriteBaseline
    \/ OwnersCompare
    \/ OwnersWriteDiffs
    \/ OwnersCheck
    \/ OwnersLoop
    \/ OwnersFinish

(***************************************************************************)
(* check_if_lgtm, lines 213-240, one statement at a time.  lgtm_call holds *)
(* the arguments and the locals of one activation; history and seen record *)
(* what the loops have processed.                                          *)
(***************************************************************************)
\* number of comments of the merge request
MaxComments == 3

\* owners.get(saas_file_name): no owners, or alice, tagged on merge requests
LgtmOwners == {<<>>, << <<"@", "a">> >>}

\* the author and the body of a comment
CommentKinds ==
    {[username |-> <<"a">>, body |-> <<"/lgtm">>],
     [username |-> <<"a">>, body |-> <<"/lgtm", " cancel">>],
     [username |-> <<"a">>, body |-> <<"/hold", "\n", "x", "\n", "/lgtm">>],
     [username |-> <<"a">>, body |-> <<"/hold">>],
     [username |-> <<"a">>, body |-> <<"/hold", " cancel">>],
     [username |-> <<"b">>, body |-> <<"/lgtm">>]}

\* the created_at values of n comments, up to their order: the values used
\* are 1..k for some k
CreatedAts(n) ==
    {t \in [1..n -> 1..n] :
        \A v \in 2..n : (\E i \in 1..n : t[i] = v) => \E i \in 1..n : t[i] = v - 1}

\* the comments with their position in the list the caller passed
WithPos(comments) ==
    [i \in 1..Len(comments) |->
        [username |-> comments[i].username, body |-> comments[i].body,
         created_at |-> comments[i].created_at, pos |-> i]]

\* no activation of check_if_lgtm is modelled
LgtmIdle == lgtm_call = [pc |-> "idle"]

\* the call check_if_lgtm(owners, comments), with at most MaxComments
\* comments from gl.get_merge_request_comments
LgtmInit ==
    \E n \in 0..MaxComments : \E t \in CreatedAts(n) :
    \E k \in [1..n -> CommentKinds] : \E o \in LgtmOwners :
        lgtm_call =
            [pc |-> "start", owners |-> o,
             comments |-> [i \in 1..n |-> Comment(k[i].username, k[i].body, t[i])],
             sorted_comments |-> <<>>, i |-> 1, lines |-> <<>>,
             approved |-> FALSE, hold |-> FALSE, lgtm_comment |-> FALSE,
             history |-> <<>>, seen |-> <<>>, result |-> <<>>]

\* lines 214-220: the early return, or the sort and the normalised owners
LgtmStart ==
    /\ lgtm_call.pc = "start"
    /\ IF lgtm_call.owners = <<>>
          THEN lgtm_call' = [lgtm_call EXCEPT !.pc = "done", !.result = <<FALSE, FALSE>>]
          ELSE lgtm_call' = [lgtm_call EXCEPT
                            !.pc = "loop",
                            !.sorted_comments = SortedComments(WithPos(lgtm_call.comments)),
                            !.owners = [i \in 1..Len(lgtm_call.owners) |->
                                            WithoutAt(lgtm_call.owners[i])]]
    /\ UNCHANGED <<cfg_vars, cmp, trigger_vars, ocm_vars, own_vars>>

\* lines 225-238: the first line of lines is processed
LgtmProcess(call) ==
    LET line == Head(call.lines)
        rest == Tail(call.lines)
    IN  [ApplyLine(call, line) EXCEPT
            !.history = Append(@, line),
            !.lines = rest,
            !.pc = IF rest = <<>> THEN "loop" ELSE "lines",
            !.i = IF rest = <<>> THEN @ + 1 ELSE @]

\* a loop that reads the comments of every author
LgtmCommentNoSkip ==
    /\ lgtm_call.pc = "loop"
    /\ lgtm_call.i <= Len(lgtm_call.sorted_comments)
    /\ LET comment == lgtm_call.sorted_comments[lgtm_call.i]
       IN  lgtm_call' = LgtmProcess([lgtm_call EXCEPT !.seen = Append(@, comment.pos),
                                                      !.lines = SplitLines(comment.body)])
    /\ UNCHANGED <<cfg_vars, cmp, trigger_vars, ocm_vars, own_vars>>

\* lines 221-226: the next comment; one of another author is skipped, of
\* an owner's the body is split and its first line processed
LgtmComment ==
    /\ lgtm_call.pc = "loop"
    /\ lgtm_call.i <= Len(lgtm_call.sorted_comments)
    /\ LET comment == lgtm_call.sorted_comments[lgtm_call.i]
       IN  IF ~InList(comment.username, lgtm_call.owners)
              THEN lgtm_call' = [lgtm_call EXCEPT !.seen = Append(@, comment.pos), !.i = @ + 1]
              ELSE lgtm_call' =
                      LgtmProcess([lgtm_call EXCEPT !.seen = Append(@, comment.pos),
                                                    !.lines = SplitLines(comment.body)])
    /\ UNCHANGED <<cfg_vars, cmp, trigger_vars, ocm_vars, own_vars>>

\* lines 225-238: a further line of the body of the comment
LgtmLine ==
    /\ lgtm_call.pc = "lines"
    /\ lgtm_call' = LgtmProcess(lgtm_call)
    /\ UNCHANGED <<cfg_vars, cmp, trigger_vars, ocm_vars, own_vars>>

\* line 240: return approved, hold
LgtmReturn ==
    /\ lgtm_call.pc = "loop"
    /\ lgtm_call.i > Len(lgtm_call.sorted_comments)
    /\ lgtm_call' = [lgtm_call EXCEPT !.pc = "done",
                                       !.result = <<lgtm_call.approved, lgtm_call.hold>>]
    /\ UNCHANGED <<cfg_vars, cmp, trigger_vars, ocm_vars, own_vars>>

LgtmNext ==
    \/ LgtmStart
    \/ LgtmComment
    \/ LgtmLine
    \/ LgtmReturn

(***************************************************************************)
(* run, lines 272-290: the baseline state and the state of the merge       *)
(* request's bundle are compared.  cmp holds the inputs and the results.   *)
(***************************************************************************)
\* number of entries of one state
MaxEntries == 2

\* the entries collect_state can produce
CmpEntries == {E1, E2, E3, E4, E6, E7}

\* no comparison is modelled
CmpIdle == cmp = [pc |-> "idle"]

\* lines 272-278: baseline['state'], collect_state() and the changed paths
CmpInit ==
    \E n, m \in 0..MaxEntries :
    \E c \in [1..n -> CmpEntries] : \E d \in [1..m -> CmpEntries] :
    \E paths \in ChangedPathLists :
        cmp = [pc |-> "start", current_state |-> c, desired_state |-> d,
               changed_paths |-> paths, diffs |-> <<>>, compare_diffs |-> {},
               is_valid_diff |-> FALSE]

\* line 276
CmpDiffs ==
    /\ cmp.pc = "start"
    /\ cmp' = [cmp EXCEPT !.diffs = Diffs(cmp.current_state, cmp.desired_state),
                          !.pc = "compare"]
    /\ UNCHANGED <<cfg_vars, lgtm_call, trigger_vars, ocm_vars, own_vars>>

\* lines 280-281
CmpCompareDiffs ==
    /\ cmp.pc = "compare"
    /\ cmp' = [cmp EXCEPT
                  !.compare_diffs = collect_compare_diffs(cmp.current_state, cmp.desired_state,
                                                          cmp.changed_paths),
                  !.pc = "valid"]
    /\ UNCHANGED <<cfg_vars, lgtm_call, trigger_vars, ocm_vars, own_vars>>

\* line 290
CmpValidDiff ==
    /\ cmp.pc = "valid"
    /\ cmp' = [cmp EXCEPT !.is_valid_diff = valid_diff(cmp.current_state, cmp.desired_state),
                          !.pc = "done"]
    /\ UNCHANGED <<cfg_vars, lgtm_call, trigger_vars, ocm_vars, own_vars>>

CmpNext ==
    \/ CmpDiffs
    \/ CmpCompareDiffs
    \/ CmpValidDiff

(***************************************************************************)
(* The program: one integration is run, with or without dry_run.           *)
(***************************************************************************)
Init ==
    /\ dry_run \in BOOLEAN
    /\ LgtmIdle
    /\ CmpIdle
    /\ \/ integration = "trigger" /\ TriggerInit /\ OcmIdle /\ OwnersIdle
       \/ integration = "ocm_groups" /\ TriggerIdle /\ OcmInit /\ OwnersIdle
       \/ integration = "saas_file_owners" /\ TriggerIdle /\ OcmIdle /\ OwnersInit

Next ==
    \/ TriggerNext
    \/ OcmNext
    \/ OwnersNext

Spec == Init /\ [][Next]_vars

\* a comparison of the baseline with the merge request's bundle: no
\* integration is running
\* One non-dry-run pass of the trigger integration over Tekton specs, with
\* the clock running.
TknInit ==
    /\ thread_pool_size \in 1..MaxThreads
    /\ desired \in {S \in SUBSET TknIds :
                        /\ S # {}
                        /\ Cardinality(S) <= MaxTknSpecs
                        /\ Canonical(S)}
    /\ saas_files = SaasNamesOf(desired)
    /\ state = {}
    /\ pass = 1
    /\ run_pc = "setup"
    /\ run_result = FALSE
    /\ trigger_specs = {}
    /\ diff_err = FALSE
    /\ already_triggered = {}
    /\ lock = 0
    /\ pc = [s \in TknIds |-> "pending"]
    /\ to_trigger = [s \in TknIds |-> FALSE]
    /\ error = [s \in TknIds |-> FALSE]
    /\ dispatched = [s \in TknIds |-> "none"]
    /\ osb_dry = [s \in TknIds |-> FALSE]
    /\ updated = [s \in TknIds |-> 0]
    /\ prev_clean = FALSE
    /\ clock = 0
    /\ tkn_ts = [s \in TknIds |-> -1]

TknNext ==
    \/ RunStart
    \/ Tick
    \/ \E s \in Workers : Trigger(s)
    \/ \E s \in Workers : Acquire(s)
    \/ \E s \in Workers : Test(s)
    \/ \E s \in Workers : Insert(s)
    \/ \E s \in Workers : Release(s)
    \/ \E s \in Workers : TektonDispatch(s)
    \/ \E s \in Workers : TektonUpdateState(s)
    \/ RunReturn

TknSpecInit ==
    /\ integration = "trigger"
    /\ dry_run = FALSE
    /\ TknInit
    /\ OcmIdle
    /\ OwnersIdle
    /\ LgtmIdle
    /\ CmpIdle

TknSpec == TknSpecInit /\ [][TknNext]_vars

\* One pass of the trigger integration under fair scheduling: as long as a
\* step of run or of a worker thread is possible, one is taken.
PassNext ==
    \/ SetupError
    \/ RunStart
    \/ \E s \in Workers : Trigger(s)
    \/ \E s \in Workers : Acquire(s)
    \/ \E s \in Workers : Test(s)
    \/ \E s \in Workers : Insert(s)
    \/ \E s \in Workers : Release(s)
    \/ \E s \in Workers : JenkinsDispatch(s)
    \/ \E s \in Workers : JenkinsUpdateState(s)
    \/ \E s \in Workers : TektonDispatch(s)
    \/ \E s \in Workers : TektonUpdateState(s)
    \/ RunReturn

FairInit ==
    /\ thread_pool_size \in 1..MaxThreads
    /\ desired \in {S \in SUBSET MainIds : Cardinality(S) <= MaxFairSpecs /\ Canonical(S)}
    /\ saas_files \in (IF desired = {} THEN {{}, {<<"a">>}} ELSE {SaasNamesOf(desired)})
    /\ state = {}
    /\ pass = 1
    /\ run_pc = "setup"
    /\ run_result = FALSE
    /\ trigger_specs = {}
    /\ diff_err = FALSE
    /\ already_triggered = {}
    /\ lock = 0
    /\ pc = [s \in MainIds |-> "pending"]
    /\ to_trigger = NoSpec
    /\ error = NoSpec
    /\ dispatched = [s \in MainIds |-> "none"]
    /\ osb_dry = NoSpec
    /\ updated = [s \in MainIds |-> 0]
    /\ prev_clean = FALSE
    /\ clock = 0
    /\ tkn_ts = NoTs

FairSpecInit ==
    /\ integration = "trigger"
    /\ dry_run \in BOOLEAN
    /\ FairInit
    /\ OcmIdle
    /\ OwnersIdle
    /\ LgtmIdle
    /\ CmpIdle

FairSpec == FairSpecInit /\ [][PassNext]_vars /\ WF_vars(PassNext)

CmpSpecInit ==
    /\ integration = "saas_file_owners"
    /\ dry_run = FALSE
    /\ TriggerIdle
    /\ OcmIdle
    /\ OwnersIdle
    /\ LgtmIdle
    /\ CmpInit

CmpSpec == CmpSpecInit /\ [][CmpNext]_vars

\* an evaluation of the comments of a merge request: no integration is running
LgtmSpecInit ==
    /\ integration = "saas_file_owners"
    /\ dry_run = FALSE
    /\ TriggerIdle
    /\ OcmIdle
    /\ OwnersIdle
    /\ LgtmInit
    /\ CmpIdle

LgtmSpec == LgtmSpecInit /\ [][LgtmNext]_vars

(***************************************************************************)
(* Properties of the trigger pass                                          *)
(***************************************************************************)
Names == {TriggerName(s) : s \in Workers}

SpecsNamed(n) == {s \in trigger_specs : TriggerName(s) = n}

\* the specs whose call of _register_trigger has returned
Registered == {s \in trigger_specs : pc[s] \in {"dispatch", "update"}
                                      \/ (pc[s] \in {"done", "raised"}
                                          /\ SpecCatalog[s].provider \in {JENKINS, TEKTON})}

PassOver == run_pc \in {"returned", "raised"} /\ saas_files # {}

\* C1: of the calls of _register_trigger made with one name on the set of one
\* pass, at most one has returned True at any time, and once all of them have
\* returned exactly one has returned True and the others False; the set holds
\* exactly the names for which a call has inserted.
C1_RegisterExactlyOne ==
    /\ \A n \in Names :
        LET callers == SpecsNamed(n)
            winners == {s \in callers \cap Registered : to_trigger[s]}
        IN  /\ Cardinality(winners) <= 1
            /\ (callers # {} /\ callers \subseteq Registered)
                  => /\ Cardinality(winners) = 1
                     /\ Cardinality((callers \cap Registered) \ winners)
                            = Cardinality(callers) - 1
                     /\ n \in already_triggered
    /\ already_triggered =
          {TriggerName(s) : s \in {r \in trigger_specs : to_trigger[r] /\ pc[r] # "insert"}}

\* a pool of at least two workers has made every call of _register_trigger
\* of the pass, at least two of them with one name, and all have returned
C1_Witness ==
    \E n \in Names :
        /\ Cardinality(SpecsNamed(n)) >= 2
        /\ thread_pool_size >= 2
        /\ SpecsNamed(n) \subseteq Registered
        /\ already_triggered = {n}

\* C2: within one pass at most one provider submission is made per trigger name
C2_AtMostOneSubmission ==
    \A n \in Names :
        Cardinality({s \in Workers : TriggerName(s) = n /\ dispatched[s] # "none"}) <= 1

\* a pass is over in which two specs of one name were processed and one
\* submission was made for them
C2_Witness ==
    /\ PassOver
    /\ \E s, r \in trigger_specs :
        /\ s # r
        /\ TriggerName(s) = TriggerName(r)
        /\ dispatched[s] # "none"
        /\ dispatched[r] = "none"
        /\ pc[r] = "done"

RECURSIVE SumUpdated(_)
SumUpdated(S) ==
    IF S = {} THEN 0
    ELSE LET s == CHOOSE x \in S : TRUE IN updated[s] + SumUpdated(S \ {s})

ReturnedNoError(s) ==
    /\ SpecCatalog[s].provider \in {JENKINS, TEKTON}
    /\ dispatched[s] = "ok" \/ ~to_trigger[s]

C4_SecondPassIdle ==
    (pass >= 2 /\ prev_clean) => \A s \in Workers : dispatched[s] = "none"

\* the second pass has returned after a first pass that recorded two specs
\* sharing one trigger name
C4_Witness ==
    /\ pass = 2
    /\ prev_clean
    /\ run_pc = "returned"
    /\ \E s, r \in state : s # r /\ TriggerName(s) = TriggerName(r)

\* C5: while dry_run is true no jenkins.trigger_job call and no update_state
\* call has been made in the pass, every osb.create call of the pass was given
\* dry_run = True, and no call has been made on an OCM client.
C5_DryRunNoMutation ==
    dry_run =>
        /\ \A s \in Workers :
            /\ SpecCatalog[s].provider = JENKINS => dispatched[s] = "none"
            /\ updated[s] = 0
            /\ (SpecCatalog[s].provider = TEKTON /\ dispatched[s] # "none") => osb_dry[s]
        /\ ocm_calls = <<>>

\* a dry-run trigger pass is over in which a Jenkins spec was told to trigger
\* and a Tekton spec called osb.create
C5_Witness ==
    /\ dry_run
    /\ PassOver
    /\ \E s, r \in trigger_specs :
        /\ SpecCatalog[s].provider = JENKINS /\ to_trigger[s] /\ pc[s] = "done"
        /\ SpecCatalog[r].provider = TEKTON /\ dispatched[r] = "ok" /\ pc[r] = "done"

\* C6 as stated: with dry_run the approval gate writes no file and makes no
\* mutating call on the merge request
C6_OwnersDryRunNoMutation ==
    (integration = "saas_file_owners" /\ dry_run) => own_calls = <<>>

\* C7: the value returned by a pass that got past setup is True iff diff_err
\* is True or trigger returned True for some spec.
C7_ResultIsOr ==
    (run_pc = "returned" /\ saas_files # {}) =>
        (run_result <=> (diff_err \/ \E s \in trigger_specs : pc[s] = "done" /\ error[s]))

\* a pass returned True only because of diff_err
C7_Witness ==
    /\ run_pc = "returned"
    /\ trigger_specs # {}
    /\ run_result
    /\ diff_err
    /\ \A s \in trigger_specs : ~error[s]

\* C8 as stated: trigger never raises
C8_NoWorkerRaises == \A s \in Workers : pc[s] # "raised"

OwnFailure(s) ==
    \/ dispatched[s] = "fail"
    \/ SpecCatalog[s].provider \notin {JENKINS, TEKTON}

\* C9 as stated: at the end of a pass a spec whose submission failed has
\* error = True, and every spec of another trigger name has been processed,
\* has error = True only for a failure of its own, and has had update_state
\* called if its own submission succeeded.
C9_FailureIsolated ==
    PassOver =>
        \A s \in trigger_specs : dispatched[s] = "fail" =>
            /\ error[s]
            /\ \A r \in trigger_specs : TriggerName(r) # TriggerName(s) =>
                /\ pc[r] \in {"done", "raised"}
                /\ error[r] => OwnFailure(r)
                /\ dispatched[r] = "ok" => updated[r] = 1

\* C9 amended: the same, with the state update required in a non-dry-run
\* pass only.
C9_FailureIsolatedNonDry ==
    PassOver =>
        \A s \in trigger_specs : dispatched[s] = "fail" =>
            /\ error[s]
            /\ \A r \in trigger_specs : TriggerName(r) # TriggerName(s) =>
                /\ pc[r] \in {"done", "raised"}
                /\ error[r] => OwnFailure(r)
                /\ (dispatched[r] = "ok" /\ ~dry_run) => updated[r] = 1

\* a non-dry-run pass is over in which a Jenkins submission failed and a
\* spec of another name was dispatched and recorded
C9_Witness ==
    /\ PassOver
    /\ ~dry_run
    /\ \E s, r \in trigger_specs :
        /\ SpecCatalog[s].provider = JENKINS
        /\ dispatched[s] = "fail"
        /\ error[s]
        /\ TriggerName(r) # TriggerName(s)
        /\ dispatched[r] = "ok"
        /\ updated[r] = 1
        /\ r \in state

Unsupported == {s \in SpecIds : SpecCatalog[s].provider \notin {JENKINS, TEKTON}}

\* C10: a spec with an unsupported provider returns error = True, makes no
\* submission and no update_state call, the step that processes it leaves
\* already_triggered unchanged, and a pass is over only when every spec has
\* been processed.
C10_UnsupportedState ==
    /\ \A s \in Unsupported :
        /\ pc[s] \in {"pending", "done"}
        /\ pc[s] = "done" => error[s]
        /\ dispatched[s] = "none"
        /\ updated[s] = 0
        /\ ~to_trigger[s]
    /\ PassOver => \A r \in trigger_specs : pc[r] \in {"done", "raised"}

C10_UnsupportedStep ==
    \A s \in Unsupported :
        (pc[s] = "pending" /\ pc'[s] # "pending") => already_triggered' = already_triggered

\* C10: the state part holds in every reachable state and the step part of
\* every step: an unsupported spec gets error = True and nothing else happens.
C10_Unsupported == []C10_UnsupportedState /\ [][C10_UnsupportedStep]_vars

\* a pass is over in which an unsupported spec was processed beside a spec
\* that was dispatched
C10_Witness ==
    /\ PassOver
    /\ \E s \in Unsupported \cap trigger_specs : pc[s] = "done" /\ error[s]
    /\ \E r \in trigger_specs : dispatched[r] = "ok"

\* C11: when there are no saas files run is at setup or has returned True;
\* the results of get_diff are never bound, nothing is registered or
\* dispatched and no state is updated.
C11_NoSaasFilesAborts ==
    (integration = "trigger" /\ saas_files = {}) =>
        /\ run_pc \in {"setup", "returned"}
        /\ run_pc = "returned" => run_result
        /\ trigger_specs = {}
        /\ ~diff_err
        /\ already_triggered = {}
        /\ state = {}
        /\ \A s \in Workers :
            /\ pc[s] = "pending"
            /\ ~to_trigger[s]
            /\ dispatched[s] = "none"
            /\ updated[s] = 0

\* the second pass of a run without saas files has returned True
C11_Witness ==
    /\ integration = "trigger"
    /\ saas_files = {}
    /\ pass = 2
    /\ run_pc = "returned"
    /\ run_result

(***************************************************************************)
(* Properties of check_if_lgtm                                             *)
(***************************************************************************)
LgtmDone == lgtm_call.pc = "done"

\* the comments whose author is one of the owners, '@' dropped
ByOwners(owners, comments) ==
    SelectSeq(comments,
              LAMBDA c : \E i \in 1..Len(owners) : c.username = WithoutAt(owners[i]))

\* C12: the result of check_if_lgtm is the result it gives on the list without
\* the comments of authors that are not owners, and (False, False) when there
\* are no owners.
C12_NonOwnersIgnored ==
    LgtmDone =>
        /\ lgtm_call.result =
              check_if_lgtm(lgtm_call.owners, ByOwners(lgtm_call.owners, lgtm_call.comments))
        /\ lgtm_call.owners = <<>> => lgtm_call.result = <<FALSE, FALSE>>

\* an owner's /hold was followed by the /lgtm of another author, and the
\* result is not approved
C12_Witness ==
    /\ LgtmDone
    /\ lgtm_call.owners # <<>>
    /\ \E i, j \in 1..Len(lgtm_call.comments) :
        /\ lgtm_call.comments[i].username = <<"a">>
        /\ lgtm_call.comments[i].body = <<"/hold">>
        /\ lgtm_call.comments[j].username = <<"b">>
        /\ lgtm_call.comments[j].created_at > lgtm_call.comments[i].created_at
    /\ lgtm_call.history = << <<"/hold">> >>
    /\ lgtm_call.result = <<FALSE, TRUE>>

\* the lines of h that are one of the four commands
Commands(h) ==
    SelectSeq(h, LAMBDA l : l \in {<<"/lgtm">>, <<"/lgtm", " cancel">>,
                                   <<"/hold">>, <<"/hold", " cancel">>})

\* a /lgtm is in h with no /lgtm cancel after it
LgtmStands(h) ==
    \E i \in 1..Len(h) :
        /\ h[i] = <<"/lgtm">>
        /\ \A j \in (i + 1)..Len(h) : h[j] # <<"/lgtm", " cancel">>

\* C13: right after an owner's /hold cancel line hold is False and approved
\* is True exactly when a /lgtm has been processed with no /lgtm cancel after
\* it; /lgtm, /hold, /hold cancel give (True, False) and /hold, /hold cancel
\* give (False, False).
C13_HoldCancel ==
    lgtm_call.pc # "idle" =>
        LET h == lgtm_call.history
        IN  /\ (h # <<>> /\ h[Len(h)] = <<"/hold", " cancel">>) =>
                  /\ ~lgtm_call.hold
                  /\ lgtm_call.approved <=> LgtmStands(h)
            /\ (LgtmDone /\ Commands(h) = << <<"/lgtm">>, <<"/hold">>, <<"/hold", " cancel">> >>)
                  => lgtm_call.result = <<TRUE, FALSE>>
            /\ (LgtmDone /\ Commands(h) = << <<"/hold">>, <<"/hold", " cancel">> >>)
                  => lgtm_call.result = <<FALSE, FALSE>>

\* three comments of an owner, /lgtm, /hold and /hold cancel, were processed
\* in that order
C13_Witness ==
    /\ LgtmDone
    /\ Len(lgtm_call.comments) = 3
    /\ lgtm_call.history = << <<"/lgtm">>, <<"/hold">>, <<"/hold", " cancel">> >>
    /\ lgtm_call.result = <<TRUE, FALSE>>

ByCreatedAt(comments) ==
    LET S == {comments[i] : i \in 1..Len(comments)}
    IN  [k \in 1..Len(comments) |->
            CHOOSE c \in S : Cardinality({d \in S : d.created_at < c.created_at}) = k - 1]

DistinctCreatedAt(comments) ==
    \A i, j \in 1..Len(comments) :
        i # j => comments[i].created_at # comments[j].created_at

\* C15: the comments are processed in ascending created_at, those of equal
\* created_at in the order of the list passed; when the created_at are
\* pairwise different the result is the one of processing the set of
\* comments in ascending created_at, whatever the order of the list.
C15_StableAscending ==
    (LgtmDone /\ lgtm_call.owners # <<>>) =>
        LET c == lgtm_call.comments
            s == lgtm_call.seen
        IN  /\ Len(s) = Len(c)
            /\ {s[k] : k \in 1..Len(s)} = 1..Len(c)
            /\ \A k, l \in 1..Len(s) : k < l =>
                  \/ c[s[k]].created_at < c[s[l]].created_at
                  \/ c[s[k]].created_at = c[s[l]].created_at /\ s[k] < s[l]
            /\ DistinctCreatedAt(c) =>
                  LET st == ApplyComments(
                                [approved |-> FALSE, hold |-> FALSE, lgtm_comment |-> FALSE],
                                lgtm_call.owners, ByCreatedAt(c))
                  IN  lgtm_call.result = <<st.approved, st.hold>>

\* three comments of an owner were passed latest first, two of them with the
\* same created_at, and processed as second, third, first
C15_Witness ==
    /\ LgtmDone
    /\ lgtm_call.owners # <<>>
    /\ Len(lgtm_call.comments) = 3
    /\ lgtm_call.comments[1].created_at = 2
    /\ lgtm_call.comments[2].created_at = 1
    /\ lgtm_call.comments[3].created_at = 1
    /\ lgtm_call.comments[2].body = <<"/lgtm">>
    /\ lgtm_call.comments[3].body = <<"/hold">>
    /\ lgtm_call.seen = <<2, 3, 1>>

(***************************************************************************)
(* Properties of the comparison of the baseline and the desired state      *)
(***************************************************************************)
CmpDone == cmp.pc = "done"

\* the keys of an entry of collect_state
Fields == DOMAIN E1

\* structural equality, field by field
SameEntry(d, c) == \A f \in Fields : d[f] = c[f]

\* C16: diffs holds, in the order of desired_state, exactly the entries of
\* desired_state that differ in some field from every entry of
\* current_state; it is empty when the two states are the same.
C16_DiffsExact ==
    cmp.pc \in {"compare", "valid", "done"} =>
        LET I == {i \in 1..Len(cmp.desired_state) :
                    \A j \in 1..Len(cmp.current_state) :
                        ~SameEntry(cmp.desired_state[i], cmp.current_state[j])}
        IN  /\ Len(cmp.diffs) = Cardinality(I)
            /\ \A k \in 1..Len(cmp.diffs) :
                  \E i \in I :
                      /\ Cardinality({j \in I : j < i}) = k - 1
                      /\ cmp.diffs[k] = cmp.desired_state[i]
            /\ cmp.current_state = cmp.desired_state => cmp.diffs = <<>>

\* the first entry of desired_state is the second of current_state and the
\* second is the first of current_state with another ref: the diff is the
\* second entry alone
C16_Witness ==
    /\ CmpDone
    /\ Len(cmp.current_state) = 2
    /\ Len(cmp.desired_state) = 2
    /\ cmp.desired_state[1] = cmp.current_state[2]
    /\ cmp.desired_state[2] = [cmp.current_state[1] EXCEPT !.ref = "def"]
    /\ cmp.current_state[1].ref = "abc"
    /\ cmp.diffs = <<cmp.desired_state[2]>>

\* the two entries agree on everything but ref, parameters and
\* use_channel_in_image_tag (no entry of collect_state has a 'disable' key)
SameButTrivial(d, c) ==
    /\ \A f \in Fields \ {"ref", "parameters", "saas_file_definitions"} : d[f] = c[f]
    /\ \A f \in DOMAIN E1.saas_file_definitions \ {"use_channel_in_image_tag"} :
          d.saas_file_definitions[f] = c.saas_file_definitions[f]

C18_ReorderIsValid ==
    (/\ CmpDone
     /\ Len(cmp.current_state) = Len(cmp.desired_state)
     /\ \E p \in Permutations(1..Len(cmp.current_state)) :
            \A i \in 1..Len(cmp.current_state) :
                SameButTrivial(cmp.desired_state[i], cmp.current_state[p[i]]))
        => cmp.is_valid_diff

\* C19 as stated: valid_diff is True when the states differ in the delete
\* flag of one entry only
C19_DeleteFlagIsTrivial ==
    (/\ CmpDone
     /\ Len(cmp.current_state) = Len(cmp.desired_state)
     /\ \E k \in 1..Len(cmp.current_state) :
            /\ cmp.desired_state[k].delete # cmp.current_state[k].delete
            /\ \A i \in 1..Len(cmp.current_state) :
                  \A f \in Fields \ (IF i = k THEN {"delete"} ELSE {}) :
                      cmp.desired_state[i][f] = cmp.current_state[i][f])
        => cmp.is_valid_diff

\* C20 as stated: the URLs are those of the diffs whose path is among the
\* changed paths, each with the entries of current_state of the same
\* saas file, resource template, environment, cluster and namespace and
\* another ref
C20_UrlsOfDiffsOnly ==
    cmp.pc \in {"valid", "done"} =>
        cmp.compare_diffs =
            {<<cmp.diffs[k].url, "/compare/", cmp.current_state[j].ref, "...", cmp.diffs[k].ref>> :
                <<k, j>> \in
                    {x \in (1..Len(cmp.diffs)) \X (1..Len(cmp.current_state)) :
                        LET d == cmp.diffs[x[1]]
                            c == cmp.current_state[x[2]]
                        IN  /\ \E i \in 1..Len(cmp.changed_paths) :
                                  EndsWith(cmp.changed_paths[i], d.saas_file_path)
                            /\ \A f \in {"saas_file_name", "resource_template_name",
                                         "environment", "cluster", "namespace"} : d[f] = c[f]
                            /\ d.ref # c.ref}}

(***************************************************************************)
(* The group reconciler only manages the membership of dedicated-admins.   *)
(***************************************************************************)

\* C21: every call the group reconciler makes on an OCM client is
\* add_user_to_group or del_user_from_group on the group dedicated-admins:
\* an added membership is one the desired state has and the current state
\* lacks, a deleted one the reverse; memberships of other groups cause no
\* call, and a create_group or delete_group diff causes none either.
C21_MembershipOnly ==
    \A k \in 1..Len(ocm_calls) :
        LET c == ocm_calls[k]
            m == [cluster |-> c.cluster, group |-> c.group, user |-> c.user]
        IN  /\ c.op \in {"add_user_to_group", "del_user_from_group"}
            /\ c.group = "dedicated-admins"
            /\ c.op = "add_user_to_group"
                  => InList(m, ocm_desired) /\ ~InList(m, ocm_current)
            /\ c.op = "del_user_from_group"
                  => InList(m, ocm_current) /\ ~InList(m, ocm_desired)

\* a finished run whose diff list held a create_group, an add_user_to_group
\* and a delete_group diff, whose states differed on another group too, and
\* that made calls
C21_Witness ==
    /\ integration = "ocm_groups"
    /\ ocm_pc = "done"
    /\ ~dry_run
    /\ \E i \in 1..Len(ocm_diffs) : ocm_diffs[i].action = "create_group"
    /\ \E i \in 1..Len(ocm_diffs) : ocm_diffs[i].action = "delete_group"
    /\ \E i \in 1..Len(ocm_diffs) : ocm_diffs[i].action = "add_user_to_group"
    /\ \E i \in 1..Len(ocm_current) :
          /\ ocm_current[i].group = "other-group"
          /\ ~InList(ocm_current[i], ocm_desired)
    /\ \E k \in 1..Len(ocm_calls) : ocm_calls[k].op = "add_user_to_group"

(***************************************************************************)
(* The Tekton dispatch key carries no timestamp.                           *)
(***************************************************************************)
SameUnit(s, r) ==
    /\ SpecCatalog[s].saas_file_name = SpecCatalog[r].saas_file_name
    /\ SpecCatalog[s].env_name = SpecCatalog[r].env_name

TektonSpecs == {s \in trigger_specs : SpecCatalog[s].provider = TEKTON}

\* the resource has been constructed for spec s, and its name is the
\* lower-cased "{saas_file_name}-{env_name}" cut to the fixed prefix length,
\* a hyphen, and the twelve characters of the minute the construction read
NameIsPrefixAndMinute(s) ==
    LET n == ResourceName(s)
        l == Lower(SpecCatalog[s].saas_file_name \o <<"-">> \o SpecCatalog[s].env_name)
        k == IF Len(l) < UNIQUE_SAAS_FILE_ENV_COMBO_LEN
                THEN Len(l) ELSE UNIQUE_SAAS_FILE_ENV_COMBO_LEN
    IN  /\ tkn_ts[s] \in 0..clock
        /\ Len(n) = k + 13
        /\ \A i \in 1..k : n[i] = l[i]
        /\ n[k + 1] = "-"
        /\ \A i \in 1..12 : n[k + 1 + i] = strftime(tkn_ts[s])[i]

\* C22: the name a Tekton worker registers is the lower-cased
\* "{saas_file_name}-{env_name}" whatever minute it read, so of two Tekton
\* specs of one pass with the same saas file and environment at most one
\* has osb.create called, also when they were constructed in different
\* minutes; the resource osb.create is given is named by the lower-cased
\* pair cut to the fixed prefix length with the minute appended.
C22_KeyIsPreTimestamp ==
    /\ \A n \in already_triggered :
          \E s \in TektonSpecs :
              n = Lower(SpecCatalog[s].saas_file_name \o <<"-">> \o SpecCatalog[s].env_name)
    /\ \A s, r \in TektonSpecs :
          (s # r /\ SameUnit(s, r)) => (dispatched[s] = "none" \/ dispatched[r] = "none")
    /\ \A s \in TektonSpecs : dispatched[s] # "none" => NameIsPrefixAndMinute(s)

\* a pass is over in which two specs of one saas file and environment, whose
\* long name exceeds the prefix length, were constructed in different
\* minutes, and only one of them had osb.create called
C22_Witness ==
    /\ run_pc = "returned"
    /\ \E s, r \in TektonSpecs :
        /\ s # r
        /\ SameUnit(s, r)
        /\ Len(TriggerName(s)) > UNIQUE_SAAS_FILE_ENV_COMBO_LEN
        /\ tkn_ts[s] # tkn_ts[r]
        /\ ResourceName(s) # ResourceName(r)
        /\ dispatched[s] = "ok"
        /\ dispatched[r] = "none"

(***************************************************************************)
(* The critical section of _register_trigger.                              *)
(***************************************************************************)
\* C23: _trigger_lock is held by a worker only between its entry into the
\* with block and its leaving it, that is for the membership test and the
\* insert: no worker that is about to call or has called jenkins.trigger_job,
\* osb.create or update_state holds it.
C23_LockOnlyForTestAndInsert ==
    /\ lock # 0 => (lock \in trigger_specs /\ pc[lock] \in {"test", "insert", "release"})
    /\ \A s \in Workers : pc[s] \in {"dispatch", "update", "done", "raised"} => lock # s

\* two workers registered under different names are both at their provider
\* submission, neither holding the lock
C23_Witness ==
    \E s, r \in trigger_specs :
        /\ TriggerName(s) # TriggerName(r)
        /\ pc[s] = "dispatch" /\ to_trigger[s]
        /\ pc[r] = "dispatch" /\ to_trigger[r]
        /\ lock = 0

(***************************************************************************)
(* What is recorded when a submission fails.                               *)
(***************************************************************************)
\* C24: in a non-dry-run pass, when the provider submission made for a
\* trigger name has failed, update_state has been called for no spec of that
\* name, neither the spec that made the submission nor a spec the registry
\* suppressed, and none of them is in the persisted trigger state.
C24_FailedNeverRecorded ==
    ~dry_run =>
        \A s, r \in trigger_specs :
            (dispatched[s] = "fail" /\ TriggerName(r) = TriggerName(s)) =>
                (updated[r] = 0 /\ r \notin state)

(***************************************************************************)
(* Tekton specs of different saas files or environments.                   *)
(***************************************************************************)
\* C25: two Tekton specs of one pass whose (saas_file_name, env_name) pairs
\* differ never register under one name, so once both have passed their
\* submission step each of them has had osb.create called.
C25_DistinctUnitsDistinctKeys ==
    \A s, r \in TektonSpecs :
        ~SameUnit(s, r) =>
            /\ TriggerName(s) # TriggerName(r)
            /\ (pc[s] \in {"update", "done", "raised"} /\ pc[r] \in {"update", "done", "raised"})
                  => (dispatched[s] # "none" /\ dispatched[r] # "none")

(***************************************************************************)
(* When the approval gate sets bot/approved.                               *)
(***************************************************************************)
\* the owners of the diff's saas file, as the baseline has them, approve
DiffApproved(diff) ==
    check_if_lgtm(OwnersGet(own_owners, diff.saas_file_name), own_comments)[1]

\* the changed path belongs to a diff that is approved
PathApproved(c) ==
    \E j \in 1..Len(own_diffs) :
        /\ EndsWith(c, own_diffs[j].saas_file_path)
        /\ DiffApproved(own_diffs[j])

\* the changed path belongs to a diff that is not approved
PathUnapproved(c) ==
    \E j \in 1..Len(own_diffs) :
        /\ EndsWith(c, own_diffs[j].saas_file_path)
        /\ ~DiffApproved(own_diffs[j])

RunOver == run_pc \in {"returned", "raised"}

====
